---- MODULE Spec2Model ----
(***************************************************************************)
(* Booking lifecycle of the equipment-rental server: POST /api/bookings,   *)
(* POST /api/bookings/verify-payment, GET /api/bookings/:id/receipt and    *)
(* POST /api/webhooks/razorpay, over the storage layer (DatabaseStorage)   *)
(* and the payment adapter (payment.ts).                                   *)
(*                                                                         *)
(* Every request handler is an async function; each `await` on a storage   *)
(* or gateway call is a suspension point, so each such call is one atomic  *)
(* step and the steps of different requests interleave freely.  Storage    *)
(* writes and gateway calls are fallible: a write may throw (bounded by    *)
(* MaxDbFaults), a gateway call may throw at any time.                     *)
(*                                                                         *)
(* Identifiers: booking and receipt ids are serial (position in the        *)
(* table).  The gateway order created by the k-th successful               *)
(* razorpay.orders.create is order k, and its payment is payment k.        *)
(* Timestamps are integers in ticks, TicksPerDay ticks to a UTC day.       *)
(***************************************************************************)
EXTENDS Integers, Sequences, FiniteSets, TLC

\* ------------------------------------------------------------------ bounds
\* requests handled in one behaviour, and how many of them at a time
MaxRequests == 2
MaxInFlight == 2
\* storage writes that throw in one behaviour
MaxDbFaults == 1
NumEquipment == 1
\* resolution of a timestamp
TicksPerDay == 2

Equipment == 1..NumEquipment
Slots == 1..MaxInFlight

\* Date ranges <<startDate, endDate>> the clients submit: midnight of day 0
\* to midnight of day 1.  Every request asks for the same days, the case
\* in which requests for one equipment compete.
DateInputs == { <<0, TicksPerDay>> }

VARIABLES equipment, bookings, receipts, orders, req, started, dbFaults,
          webhookSecret

vars == <<equipment, bookings, receipts, orders, req, started, dbFaults,
          webhookSecret>>

\* ------------------------------------------------------------ pure helpers
Max(a, b) == IF a >= b THEN a ELSE b

\* Math.ceil(x / d) for an integer x and d > 0
Ceil(x, d) == -((-x) \div d)

DayOf(t) == t \div TicksPerDay

\* Date.setUTCHours(0, 0, 0, 0)
StartOfDay(t) == DayOf(t) * TicksPerDay

\* Date.setUTCHours(23, 59, 59, 999): the last instant of the day
EndOfDay(t) == DayOf(t) * TicksPerDay + (TicksPerDay - 1)

\* new Date(x) of a malformed x: its getTime() is NaN
InvalidDate == -1

isNaN(t) == t = InvalidDate

\* the day count without the + 1 that includes both endpoints
totalDays_Exclusive(startDate, endDate) ==
    Max(1, Ceil(endDate - startDate, TicksPerDay))

\* routes.ts: Math.max(1, Math.ceil((end - start) / 1 day) + 1)
totalDays(startDate, endDate) ==
    Max(1, Ceil(endDate - startDate, TicksPerDay) + 1)

\* equipment.dailyRate, whole currency units
dailyRate == 500

\* amount in paise
PaisePerRupee == 100

\* --------------------------------------------------------- payment adapter
\* process.env.RAZORPAY_KEY_SECRET, and a key the server does not hold
KeySecret == "key_secret"
ForgedKey == "forged"

\* process.env.RAZORPAY_WEBHOOK_SECRET as the gateway's dashboard holds it,
\* and the value of the variable when the deployment does not set it
WebhookSecret == "webhook_secret"
NoSecret == ""

\* crypto.createHmac("sha256", key).update(text).digest("hex"): a MAC is
\* determined by, and determines, its key and text
Hmac(key, text) == <<key, text>>

\* verifyPaymentSignature comparing the signed text only, whatever the key
verifyPaymentSignature_AnyKey(orderId, paymentId, signature) ==
    signature[2] = <<orderId, paymentId>>

\* payment.ts verifyPaymentSignature: text = orderId + "|" + paymentId
verifyPaymentSignature(orderId, paymentId, signature) ==
    Hmac(KeySecret, <<orderId, paymentId>>) = signature

\* ----------------------------------------------------------------- storage
BookingIds == 1..Len(bookings)

\* getBookingsByDateRange without its third case (the booking spans the range)
getBookingsByDateRange_NoSpan(equipmentId, startDate, endDate) ==
    IF isNaN(startDate) \/ isNaN(endDate)
    THEN {}
    ELSE LET start == StartOfDay(startDate)
             end   == EndOfDay(endDate)
         IN  { b \in BookingIds :
                 /\ bookings[b].equipmentId = equipmentId
                 /\ \/ (bookings[b].startDate >= start /\ bookings[b].startDate <= end)
                    \/ (bookings[b].endDate >= start /\ bookings[b].endDate <= end) }

\* DatabaseStorage.getBookingsByDateRange: the ids of the selected rows; an
\* invalid date selects nothing
getBookingsByDateRange(equipmentId, startDate, endDate) ==
    IF isNaN(startDate) \/ isNaN(endDate)
    THEN {}
    ELSE LET start == StartOfDay(startDate)
             end   == EndOfDay(endDate)
         IN  { b \in BookingIds :
                 /\ bookings[b].equipmentId = equipmentId
                 /\ \/ (bookings[b].startDate >= start /\ bookings[b].startDate <= end)
                    \/ (bookings[b].endDate >= start /\ bookings[b].endDate <= end)
                    \/ (bookings[b].startDate <= start /\ bookings[b].endDate >= end) }

\* DatabaseStorage.checkEquipmentAvailability, second half: no selected row
\* is paid or awaiting_payment
NoConflictingBooking(equipmentId, startDate, endDate) ==
    ~ \E b \in getBookingsByDateRange(equipmentId, startDate, endDate) :
          bookings[b].status \in {"paid", "awaiting_payment"}

\* DatabaseStorage.checkEquipmentAvailability with nothing running between
\* its two reads: a missing or unavailable equipment row gives false
checkEquipmentAvailability(equipmentId, startDate, endDate) ==
    IF equipmentId \notin Equipment
    THEN FALSE
    ELSE IF ~equipment[equipmentId].availability
         THEN FALSE
         ELSE NoConflictingBooking(equipmentId, startDate, endDate)

\* The gateway orders a client has been given: the order id reaches the
\* client in the 201 response, sent right after the update that stores it
\* on the booking.  Only these orders can have been paid.
IssuedOrders ==
    { o \in 1..Len(orders) : \E b \in BookingIds : bookings[b].razorpayOrderId = o }

\* req.user.id of the farmer who books; another account asks for receipts
Customer == 1
Users == { Customer, Customer + 1 }

\* DatabaseStorage.createBooking: the inserted row (userId: req.user.id)
NewBooking(equipmentId, startDate, endDate, totalPrice) ==
    [ userId |-> Customer,
      equipmentId |-> equipmentId, startDate |-> startDate, endDate |-> endDate,
      totalPrice |-> totalPrice, status |-> "pending",
      razorpayOrderId |-> 0, razorpayPaymentId |-> 0, lastStatusUpdate |-> 0 ]

\* DatabaseStorage.updateBooking(id, {status, razorpayOrderId}): every update
\* also stamps lastStatusUpdate (modelled as the number of updates of the row)
updateBookingOrder(id, status, orderId) ==
    [bookings EXCEPT ![id].status = status,
                     ![id].razorpayOrderId = orderId,
                     ![id].lastStatusUpdate = @ + 1]

\* DatabaseStorage.updateBooking(id, {status})
updateBookingStatus(id, status) ==
    [bookings EXCEPT ![id].status = status,
                     ![id].lastStatusUpdate = @ + 1]

\* DatabaseStorage.updateBooking(id, {status, razorpayPaymentId})
updateBookingPayment(id, status, paymentId) ==
    [bookings EXCEPT ![id].status = status,
                     ![id].razorpayPaymentId = paymentId,
                     ![id].lastStatusUpdate = @ + 1]

\* DatabaseStorage.createReceipt: the inserted row (userId: booking.userId)
NewReceipt(bookingId, amount, status, paymentId) ==
    [ bookingId |-> bookingId, userId |-> bookings[bookingId].userId,
      amount |-> amount, status |-> status,
      razorpayPaymentId |-> paymentId ]

\* DatabaseStorage.getReceiptByBookingId: `const [receipt] = select ... where
\* booking_id = id` takes the first row of an unordered result, any of the
\* booking's receipts
ReceiptsOf(bookingId) ==
    { i \in 1..Len(receipts) : receipts[i].bookingId = bookingId }

\* DatabaseStorage.updateEquipment(id, {availability})
updateEquipment(id, availability) ==
    [equipment EXCEPT ![id].availability = availability]

\* ---------------------------------------------------------------- requests
NoKey == <<"none", 0>>

IdleReq ==
    [ kind |-> "none", pc |-> "idle", equipmentId |-> 0, startDate |-> 0,
      endDate |-> 0, totalAmount |-> 0, bookingId |-> 0, orderId |-> 0,
      paymentId |-> 0, signature |-> <<"", <<0, 0>>>>, key |-> NoKey,
      seen |-> "", receiptId |-> 0, result |-> "", threw |-> "",
      wrote |-> FALSE, rows |-> {}, event |-> "",
      user |-> 0 ]

\* The database when the server starts serving: no booking yet, or the
\* state one completed POST /api/bookings leaves behind (a booking awaiting
\* payment, its order issued, its equipment locked).
InitialBooking(e) ==
    [ NewBooking(e, 0, TicksPerDay, dailyRate * totalDays(0, TicksPerDay))
        EXCEPT !.status = "awaiting_payment", !.razorpayOrderId = 1,
               !.lastStatusUpdate = 1 ]

InitDatabase ==
    /\ \/ /\ equipment = [e \in Equipment |-> [availability |-> TRUE, dailyRate |-> dailyRate]]
          /\ bookings = <<>>
          /\ orders = <<>>
       \/ \E e \in Equipment :
            /\ equipment = [x \in Equipment |->
                              [availability |-> (x # e), dailyRate |-> dailyRate]]
            /\ bookings = << InitialBooking(e) >>
            /\ orders = << [bookingId |-> 1,
                            amount |-> dailyRate * totalDays(0, TicksPerDay) * PaisePerRupee] >>
    /\ receipts = <<>>
    /\ req = [r \in Slots |-> IdleReq]
    /\ started = 0
    /\ dbFaults = 0

\* the deployment sets RAZORPAY_WEBHOOK_SECRET
Init ==
    /\ InitDatabase
    /\ webhookSecret = WebhookSecret

\* a slot is free before its first request and after a response
Free(r) == req[r].pc \in {"idle", "done"}

\* a new request takes the lowest free slot
CanStart(r) ==
    /\ started < MaxRequests
    /\ Free(r)
    /\ \A q \in Slots : q < r => ~Free(q)

\* a storage write may throw while the fault budget lasts
MayFault == dbFaults < MaxDbFaults

\* the handler has sent its response; what the request asked and did stays
\* visible until the next request takes the slot
Finish(rq, result, threw) ==
    [IdleReq EXCEPT !.kind = rq.kind, !.pc = "done",
                    !.equipmentId = rq.equipmentId,
                    !.bookingId = rq.bookingId,
                    !.orderId = rq.orderId,
                    !.paymentId = rq.paymentId,
                    !.signature = rq.signature,
                    !.key = rq.key,
                    !.seen = rq.seen,
                    !.receiptId = rq.receiptId,
                    !.wrote = rq.wrote,
                    !.rows = rq.rows,
                    !.event = rq.event,
                    !.user = rq.user,
                    !.result = result,
                    !.threw = IF threw = "" THEN rq.threw ELSE threw]

\* ------------------------------------------------------ POST /api/bookings
\* POST /api/bookings without the availability test of routes.ts 516
CreateBooking_NoFlagTest(r) ==
    /\ CanStart(r)
    /\ started' = started + 1
    /\ \E e \in Equipment, d \in DateInputs :
          req' = [req EXCEPT ![r] =
                    [IdleReq EXCEPT !.kind = "create", !.equipmentId = e,
                                    !.startDate = d[1], !.endDate = d[2],
                                    !.seen = IF equipment[e].availability
                                             THEN "available" ELSE "unavailable",
                                    !.pc = "cb_checkEquipment",
                                    !.totalAmount =
                                        equipment[e].dailyRate * totalDays(d[1], d[2])]]
    /\ UNCHANGED <<equipment, bookings, receipts, orders, dbFaults, webhookSecret>>

\* routes.ts 496-529: the request arrives, insertBookingSchema.safeParse
\* accepts it, storage.getEquipment reads the row, the availability flag is
\* tested and the price is computed from the row just read
CreateBooking(r) ==
    /\ CanStart(r)
    /\ started' = started + 1
    /\ \E e \in Equipment, d \in DateInputs :
          LET rq == [IdleReq EXCEPT !.kind = "create", !.equipmentId = e,
                                    !.startDate = d[1], !.endDate = d[2],
                                    !.seen = IF equipment[e].availability
                                             THEN "available" ELSE "unavailable"]
          IN  IF ~equipment[e].availability
              THEN req' = [req EXCEPT ![r] = Finish(rq, "conflict", "")]
              ELSE req' = [req EXCEPT ![r] =
                             [rq EXCEPT !.pc = "cb_checkEquipment",
                                        !.totalAmount =
                                            equipment[e].dailyRate * totalDays(d[1], d[2])]]
    /\ UNCHANGED <<equipment, bookings, receipts, orders, dbFaults, webhookSecret>>

\* What a client can put into startDate and endDate of the request body:
\* midnights of days 0 to 2 and an instant after midnight, in either order,
\* or a string that is no date.  Equipment NumEquipment + 1 does not exist.
BookingDateInputs ==
    { <<s, e>> : s \in {0, TicksPerDay}, e \in {0, 1, TicksPerDay, 2 * TicksPerDay} }
        \cup { <<InvalidDate, 0>>, <<0, InvalidDate>> }

\* routes.ts 496-529 for any request body, one request at a time:
\* z.coerce.date() of insertBookingSchema refuses only what is no date (400),
\* a missing equipment row gives 404, then as CreateBooking
CreateBookingAnyBody(r) ==
    /\ CanStart(r)
    /\ \A q \in Slots : Free(q)
    /\ started' = started + 1
    /\ \E e \in 1..(NumEquipment + 1), d \in BookingDateInputs :
          LET rq == [IdleReq EXCEPT !.kind = "create", !.equipmentId = e,
                                    !.startDate = d[1], !.endDate = d[2]]
          IN  IF isNaN(d[1]) \/ isNaN(d[2])
              THEN req' = [req EXCEPT ![r] = Finish(rq, "invalid", "")]
              ELSE IF e \notin Equipment
              THEN req' = [req EXCEPT ![r] = Finish(rq, "not_found", "")]
              ELSE IF ~equipment[e].availability
              THEN req' = [req EXCEPT ![r] =
                             Finish([rq EXCEPT !.seen = "unavailable"], "conflict", "")]
              ELSE req' = [req EXCEPT ![r] =
                             [rq EXCEPT !.pc = "cb_checkEquipment",
                                        !.seen = "available",
                                        !.totalAmount =
                                            equipment[e].dailyRate * totalDays(d[1], d[2])]]
    /\ UNCHANGED <<equipment, bookings, receipts, orders, dbFaults, webhookSecret>>

\* checkEquipmentAvailability, first await: this.getEquipment
CreateBookingCheckEquipment(r) ==
    /\ req[r].pc = "cb_checkEquipment"
    /\ IF ~equipment[req[r].equipmentId].availability
       THEN req' = [req EXCEPT ![r] = Finish(req[r], "conflict", "")]
       ELSE req' = [req EXCEPT ![r].pc = "cb_checkBookings"]
    /\ UNCHANGED <<equipment, bookings, receipts, orders, started, dbFaults, webhookSecret>>

\* checkEquipmentAvailability, second await: this.getBookingsByDateRange
CreateBookingCheckBookings(r) ==
    /\ req[r].pc = "cb_checkBookings"
    /\ IF NoConflictingBooking(req[r].equipmentId, req[r].startDate, req[r].endDate)
       THEN req' = [req EXCEPT ![r].pc = "cb_insert"]
       ELSE req' = [req EXCEPT ![r] = Finish(req[r], "conflict", "")]
    /\ UNCHANGED <<equipment, bookings, receipts, orders, started, dbFaults, webhookSecret>>

\* routes.ts 543: storage.createBooking; a throw reaches the outer catch
CreateBookingInsert(r) ==
    /\ req[r].pc = "cb_insert"
    /\ \/ /\ bookings' = Append(bookings,
                NewBooking(req[r].equipmentId, req[r].startDate, req[r].endDate,
                           req[r].totalAmount))
          /\ req' = [req EXCEPT ![r].pc = "cb_lock",
                                ![r].bookingId = Len(bookings) + 1,
                                ![r].wrote = TRUE]
          /\ UNCHANGED dbFaults
       \/ /\ MayFault
          /\ dbFaults' = dbFaults + 1
          /\ req' = [req EXCEPT ![r] = Finish(req[r], "error", "insert")]
          /\ UNCHANGED bookings
    /\ UNCHANGED <<equipment, receipts, orders, started, webhookSecret>>

\* routes.ts 553: lock the equipment; a throw reaches catch (paymentError)
CreateBookingLock(r) ==
    /\ req[r].pc = "cb_lock"
    /\ \/ /\ equipment' = updateEquipment(req[r].equipmentId, FALSE)
          /\ req' = [req EXCEPT ![r].pc = "cb_createPaymentSession"]
          /\ UNCHANGED dbFaults
       \/ /\ MayFault
          /\ dbFaults' = dbFaults + 1
          /\ req' = [req EXCEPT ![r].pc = "cb_revert", ![r].threw = "lock"]
          /\ UNCHANGED equipment
    /\ UNCHANGED <<bookings, receipts, orders, started, webhookSecret>>

\* payment.ts createPaymentSession(booking.id, totalAmount * 100, name):
\* a non-positive amount, a gateway error or an order without id all throw
createPaymentSession(r) ==
    /\ req[r].pc = "cb_createPaymentSession"
    /\ \/ /\ req[r].totalAmount * PaisePerRupee > 0
          /\ orders' = Append(orders, [bookingId |-> req[r].bookingId,
                                       amount |-> req[r].totalAmount * PaisePerRupee])
          /\ req' = [req EXCEPT ![r].pc = "cb_update", ![r].orderId = Len(orders) + 1]
       \/ /\ req' = [req EXCEPT ![r].pc = "cb_revert", ![r].threw = "gateway"]
          /\ UNCHANGED orders
    /\ UNCHANGED <<equipment, bookings, receipts, started, dbFaults, webhookSecret>>

\* routes.ts 561 outside the inner try: a throw goes to the outer catch
CreateBookingUpdate_Uncaught(r) ==
    /\ req[r].pc = "cb_update"
    /\ \/ /\ bookings' = updateBookingOrder(req[r].bookingId, "awaiting_payment", req[r].orderId)
          /\ req' = [req EXCEPT ![r] = Finish(req[r], "created", "")]
          /\ UNCHANGED dbFaults
       \/ /\ MayFault
          /\ dbFaults' = dbFaults + 1
          /\ req' = [req EXCEPT ![r] = Finish(req[r], "error", "update")]
          /\ UNCHANGED bookings
    /\ UNCHANGED <<equipment, receipts, orders, started, webhookSecret>>

\* routes.ts 561: storage.updateBooking to awaiting_payment, then 201
CreateBookingUpdate(r) ==
    /\ req[r].pc = "cb_update"
    /\ \/ /\ bookings' = updateBookingOrder(req[r].bookingId, "awaiting_payment", req[r].orderId)
          /\ req' = [req EXCEPT ![r] = Finish(req[r], "created", "")]
          /\ UNCHANGED dbFaults
       \/ /\ MayFault
          /\ dbFaults' = dbFaults + 1
          /\ req' = [req EXCEPT ![r].pc = "cb_revert", ![r].threw = "update"]
          /\ UNCHANGED bookings
    /\ UNCHANGED <<equipment, receipts, orders, started, webhookSecret>>

\* the catch block without the revert of the availability
CreateBookingRevert_Skipped(r) ==
    /\ req[r].pc = "cb_revert"
    /\ req' = [req EXCEPT ![r].pc = "cb_markFailed"]
    /\ UNCHANGED <<equipment, bookings, receipts, orders, started, dbFaults, webhookSecret>>

\* routes.ts 585: the catch block reverts the availability; a throw here
\* leaves the catch block for the outer catch (500)
CreateBookingRevert(r) ==
    /\ req[r].pc = "cb_revert"
    /\ \/ /\ equipment' = updateEquipment(req[r].equipmentId, TRUE)
          /\ req' = [req EXCEPT ![r].pc = "cb_markFailed"]
          /\ UNCHANGED dbFaults
       \/ /\ MayFault
          /\ dbFaults' = dbFaults + 1
          /\ req' = [req EXCEPT ![r] = Finish(req[r], "error", "revert")]
          /\ UNCHANGED equipment
    /\ UNCHANGED <<bookings, receipts, orders, started, webhookSecret>>

\* routes.ts 590: mark the booking payment_failed, then 400
CreateBookingMarkFailed(r) ==
    /\ req[r].pc = "cb_markFailed"
    /\ \/ /\ bookings' = updateBookingStatus(req[r].bookingId, "payment_failed")
          /\ req' = [req EXCEPT ![r] = Finish(req[r], "payment_error", "")]
          /\ UNCHANGED dbFaults
       \/ /\ MayFault
          /\ dbFaults' = dbFaults + 1
          /\ req' = [req EXCEPT ![r] = Finish(req[r], "error", "markFailed")]
          /\ UNCHANGED bookings
    /\ UNCHANGED <<equipment, receipts, orders, started, webhookSecret>>

\* ---------------------------------------- POST /api/bookings/verify-payment
\* The signatures a client can present for order o and its payment: the one
\* the gateway issued, and one not made with the server's key
SignatureInputs(o, p) == { Hmac(KeySecret, <<o, p>>), Hmac(ForgedKey, <<o, p>>) }

\* routes.ts 609-624: the request arrives with all four fields and
\* storage.getBooking looks the booking up (id Len(bookings) + 1 is unknown)
VerifyPayment(r) ==
    /\ CanStart(r)
    /\ started' = started + 1
    /\ \E b \in 1..(Len(bookings) + 1), o \in IssuedOrders :
       \E sig \in SignatureInputs(o, o) :
          LET rq == [IdleReq EXCEPT !.kind = "verify", !.bookingId = b,
                                    !.orderId = o, !.paymentId = o,
                                    !.signature = sig]
          IN  IF b \notin BookingIds
              THEN req' = [req EXCEPT ![r] = Finish(rq, "not_found", "")]
              ELSE req' = [req EXCEPT ![r] =
                             [rq EXCEPT !.pc = "vp_getEquipment",
                                        !.equipmentId = bookings[b].equipmentId]]
    /\ UNCHANGED <<equipment, bookings, receipts, orders, dbFaults, webhookSecret>>

\* routes.ts 627-638: storage.getEquipment (the row exists), then the
\* signature check, which does no I/O
VerifyPaymentSignature(r) ==
    /\ req[r].pc = "vp_getEquipment"
    /\ IF verifyPaymentSignature(req[r].orderId, req[r].paymentId, req[r].signature)
       THEN req' = [req EXCEPT ![r].pc = "vp_updateBooking"]
       ELSE req' = [req EXCEPT ![r] = Finish(req[r], "invalid_signature", "")]
    /\ UNCHANGED <<equipment, bookings, receipts, orders, started, dbFaults, webhookSecret>>

\* routes.ts 641: storage.updateBooking to paid
VerifyPaymentUpdateBooking(r) ==
    /\ req[r].pc = "vp_updateBooking"
    /\ \/ /\ bookings' = updateBookingPayment(req[r].bookingId, "paid", req[r].paymentId)
          /\ req' = [req EXCEPT ![r].pc = "vp_createReceipt", ![r].wrote = TRUE]
          /\ UNCHANGED dbFaults
       \/ /\ MayFault
          /\ dbFaults' = dbFaults + 1
          /\ req' = [req EXCEPT ![r] = Finish(req[r], "error", "update")]
          /\ UNCHANGED bookings
    /\ UNCHANGED <<equipment, receipts, orders, started, webhookSecret>>

\* routes.ts 649-673: storage.createReceipt from the booking read at 620
\* (id and totalPrice never change after the insert), then the response
VerifyPaymentCreateReceipt(r) ==
    /\ req[r].pc = "vp_createReceipt"
    /\ \/ /\ receipts' = Append(receipts,
                NewReceipt(req[r].bookingId,
                           bookings[req[r].bookingId].totalPrice * PaisePerRupee,
                           "paid", req[r].paymentId))
          /\ req' = [req EXCEPT ![r] =
                       Finish([req[r] EXCEPT !.receiptId = Len(receipts) + 1], "settled", "")]
          /\ UNCHANGED dbFaults
       \/ /\ MayFault
          /\ dbFaults' = dbFaults + 1
          /\ req' = [req EXCEPT ![r] = Finish(req[r], "error", "receipt")]
          /\ UNCHANGED receipts
    /\ UNCHANGED <<equipment, bookings, orders, started, webhookSecret>>

\* ------------------------------------------- GET /api/bookings/:id/receipt
\* routes.ts 745-753, asked by the booking's own user: storage.getBooking;
\* the handler keeps the row it read
GetBookingReceipt(r) ==
    /\ CanStart(r)
    /\ started' = started + 1
    /\ \E b \in BookingIds :
          req' = [req EXCEPT ![r] =
                    [IdleReq EXCEPT !.kind = "receipt", !.pc = "gr_getReceipt",
                                    !.user = bookings[b].userId,
                                    !.bookingId = b,
                                    !.equipmentId = bookings[b].equipmentId,
                                    !.seen = bookings[b].status,
                                    !.paymentId = bookings[b].razorpayPaymentId]]
    /\ UNCHANGED <<equipment, bookings, receipts, orders, dbFaults, webhookSecret>>

\* routes.ts 741-753 asked by any authenticated account
GetBookingReceiptAnyUser(r) ==
    /\ CanStart(r)
    /\ started' = started + 1
    /\ \E b \in BookingIds, u \in Users :
          req' = [req EXCEPT ![r] =
                    [IdleReq EXCEPT !.kind = "receipt", !.pc = "gr_getReceipt",
                                    !.user = u,
                                    !.bookingId = b,
                                    !.equipmentId = bookings[b].equipmentId,
                                    !.seen = bookings[b].status,
                                    !.paymentId = bookings[b].razorpayPaymentId]]
    /\ UNCHANGED <<equipment, bookings, receipts, orders, dbFaults, webhookSecret>>

\* routes.ts 755-785: storage.getReceiptByBookingId; an existing receipt is
\* returned to the user it belongs to (403 for another), a missing one is
\* created only if the row read at 750 was paid
GetBookingReceiptLookup(r) ==
    /\ req[r].pc = "gr_getReceipt"
    /\ IF ReceiptsOf(req[r].bookingId) # {}
       THEN \E i \in ReceiptsOf(req[r].bookingId) :
               IF receipts[i].userId # req[r].user
               THEN req' = [req EXCEPT ![r] = Finish(req[r], "forbidden", "")]
               ELSE req' = [req EXCEPT ![r] =
                              Finish([req[r] EXCEPT !.receiptId = i], "receipt", "")]
       ELSE IF req[r].seen = "paid"
            THEN req' = [req EXCEPT ![r].pc = "gr_createReceipt"]
            ELSE req' = [req EXCEPT ![r] = Finish(req[r], "not_found", "")]
    /\ UNCHANGED <<equipment, bookings, receipts, orders, started, dbFaults, webhookSecret>>

\* routes.ts 759-775: storage.getEquipment for the name, then
\* storage.createReceipt; nothing the first await reads is used to decide
GetBookingReceiptCreate(r) ==
    /\ req[r].pc = "gr_createReceipt"
    /\ \/ /\ receipts' = Append(receipts,
                NewReceipt(req[r].bookingId,
                           bookings[req[r].bookingId].totalPrice * PaisePerRupee,
                           "paid", req[r].paymentId))
          /\ req' = [req EXCEPT ![r] =
                       Finish([req[r] EXCEPT !.receiptId = Len(receipts) + 1,
                                             !.wrote = TRUE], "receipt", "")]
          /\ UNCHANGED dbFaults
       \/ /\ MayFault
          /\ dbFaults' = dbFaults + 1
          /\ req' = [req EXCEPT ![r] = Finish(req[r], "error", "receipt")]
          /\ UNCHANGED receipts
    /\ UNCHANGED <<equipment, bookings, orders, started, webhookSecret>>

\* ------------------------------------------- POST /api/webhooks/razorpay
\* What payload.payment.order_id can hold: the gateway's id of an order, or
\* a number, which is the id of a booking row when such a row exists
KeyInputs ==
    { <<"order", k>> : k \in IssuedOrders } \cup { <<"int", b>> : b \in BookingIds }

\* routes.ts 1474-1483 handleWebhookEvent: the result for an event with
\* payload.payment = {status, order_id, id}
handleWebhookEvent(status, order_id, id) ==
    IF status = "captured"
    THEN [status |-> "success", bookingId |-> order_id, paymentId |-> id]
    ELSE IF status = "failed"
         THEN [status |-> "failed", bookingId |-> order_id, paymentId |-> 0]
         ELSE [status |-> "null", bookingId |-> NoKey, paymentId |-> 0]

\* DatabaseStorage.updateBooking's `where id = ...` finds a row only for a
\* number that is a booking id; any other value makes the update throw
RowOf(key) == IF key[1] = "int" /\ key[2] \in BookingIds THEN key[2] ELSE 0

\* routes.ts 814-818: a request that has passed the signature check of
\* 795-812 (a rejected one changes nothing); the body is parsed and
\* handleWebhookEvent maps it; none of this awaits I/O.  Payment p is the
\* payment of an issued order.
Webhook(r) ==
    /\ CanStart(r)
    /\ started' = started + 1
    /\ \E status \in {"captured", "failed", "refunded"}, k \in KeyInputs,
          p \in IssuedOrders :
          LET result == handleWebhookEvent(status, k, p)
              rq == [IdleReq EXCEPT !.kind = "webhook", !.seen = status,
                                    !.key = result.bookingId,
                                    !.paymentId = result.paymentId]
          IN  IF result.status = "success" /\ result.paymentId # 0
              THEN req' = [req EXCEPT ![r] = [rq EXCEPT !.pc = "wh_updatePaid"]]
              ELSE IF result.status = "failed"
                   THEN req' = [req EXCEPT ![r] = [rq EXCEPT !.pc = "wh_updateFailed"]]
                   ELSE req' = [req EXCEPT ![r] = Finish(rq, "received", "")]
    /\ UNCHANGED <<equipment, bookings, receipts, orders, dbFaults, webhookSecret>>

\* a request without the x-razorpay-signature header
MissingSignature == <<"missing", <<>>>>

\* The x-razorpay-signature a sender can attach to a body: none, the HMAC
\* under the gateway's webhook secret, or an HMAC under another key
WebhookSignatureInputs(body) ==
    { MissingSignature, Hmac(WebhookSecret, body), Hmac(ForgedKey, body) }

\* The events a sender can post, as <<event type, payload.payment.status>>:
\* the two types the spec recognizes, a type that carries a captured or a
\* refunded payment, and a type whose payload has no payment at all
WebhookEvents ==
    { <<"payment.captured", "captured">>, <<"payment.failed", "failed">>,
      <<"order.paid", "captured">>, <<"refund.processed", "refunded">>,
      <<"settlement.processed", "malformed">> }

\* routes.ts 795-818 for any sender: the signature is looked at only when
\* the secret is set (400 for a missing or a different one); then the body
\* is parsed, and an event without payload.payment makes handleWebhookEvent
\* throw, which the catch at 849 answers with 400
WebhookAnySender(r) ==
    /\ CanStart(r)
    /\ started' = started + 1
    /\ \E ev \in WebhookEvents, k \in KeyInputs, p \in IssuedOrders :
       \E sig \in WebhookSignatureInputs(<<ev, k, p>>) :
          LET status == ev[2]
              in == [IdleReq EXCEPT !.kind = "webhook", !.seen = status,
                                    !.event = ev[1], !.signature = sig]
              result == handleWebhookEvent(status, k, p)
              rq == [in EXCEPT !.key = result.bookingId,
                               !.paymentId = result.paymentId]
          IN  IF webhookSecret # NoSecret /\ sig = MissingSignature
              THEN req' = [req EXCEPT ![r] = Finish(in, "rejected", "")]
              ELSE IF webhookSecret # NoSecret /\ sig # Hmac(webhookSecret, <<ev, k, p>>)
              THEN req' = [req EXCEPT ![r] = Finish(in, "rejected", "")]
              ELSE IF status = "malformed"
              THEN req' = [req EXCEPT ![r] = Finish(in, "webhook_error", "event")]
              ELSE IF result.status = "success" /\ result.paymentId # 0
              THEN req' = [req EXCEPT ![r] = [rq EXCEPT !.pc = "wh_updatePaid"]]
              ELSE IF result.status = "failed"
              THEN req' = [req EXCEPT ![r] = [rq EXCEPT !.pc = "wh_updateFailed"]]
              ELSE req' = [req EXCEPT ![r] = Finish(rq, "received", "")]
    /\ UNCHANGED <<equipment, bookings, receipts, orders, dbFaults, webhookSecret>>

\* routes.ts 820: storage.updateBooking(result.bookingId, {paid, paymentId});
\* every throw of the handler ends in the catch at 849 (400)
WebhookUpdatePaid(r) ==
    /\ req[r].pc = "wh_updatePaid"
    /\ LET b == RowOf(req[r].key)
       IN  \/ /\ b # 0
              /\ bookings' = updateBookingPayment(b, "paid", req[r].paymentId)
              /\ req' = [req EXCEPT ![r].pc = "wh_lock", ![r].bookingId = b,
                                    ![r].equipmentId = bookings[b].equipmentId,
                                    ![r].wrote = TRUE]
              /\ UNCHANGED dbFaults
           \/ /\ b = 0
              /\ req' = [req EXCEPT ![r] = Finish(req[r], "webhook_error", "update")]
              /\ UNCHANGED <<bookings, dbFaults>>
           \/ /\ b # 0
              /\ MayFault
              /\ dbFaults' = dbFaults + 1
              /\ req' = [req EXCEPT ![r] = Finish(req[r], "webhook_error", "update")]
              /\ UNCHANGED bookings
    /\ UNCHANGED <<equipment, receipts, orders, started, webhookSecret>>

\* routes.ts 827: storage.updateEquipment(booking.equipmentId, false)
WebhookLock(r) ==
    /\ req[r].pc = "wh_lock"
    /\ \/ /\ equipment' = updateEquipment(req[r].equipmentId, FALSE)
          /\ req' = [req EXCEPT ![r].pc = "wh_fetchPayment"]
          /\ UNCHANGED dbFaults
       \/ /\ MayFault
          /\ dbFaults' = dbFaults + 1
          /\ req' = [req EXCEPT ![r] = Finish(req[r], "webhook_error", "lock")]
          /\ UNCHANGED equipment
    /\ UNCHANGED <<bookings, receipts, orders, started, webhookSecret>>

\* payment.ts generateReceipt 294-301: razorpay.payments.fetch, which may
\* throw, then the reads of booking, equipment and user, which all exist
generateReceiptFetch(r) ==
    /\ req[r].pc = "wh_fetchPayment"
    /\ \/ req' = [req EXCEPT ![r].pc = "wh_createReceipt"]
       \/ req' = [req EXCEPT ![r] = Finish(req[r], "webhook_error", "gateway")]
    /\ UNCHANGED <<equipment, bookings, receipts, orders, started, dbFaults, webhookSecret>>

\* payment.ts generateReceipt 385-403: storage.createReceipt with the amount
\* and status of the gateway's payment record (payment p pays order p)
generateReceipt(r) ==
    /\ req[r].pc = "wh_createReceipt"
    /\ \/ /\ receipts' = Append(receipts,
                NewReceipt(req[r].bookingId, orders[req[r].paymentId].amount,
                           "captured", req[r].paymentId))
          /\ req' = [req EXCEPT ![r] =
                       Finish([req[r] EXCEPT !.receiptId = Len(receipts) + 1], "received", "")]
          /\ UNCHANGED dbFaults
       \/ /\ MayFault
          /\ dbFaults' = dbFaults + 1
          /\ req' = [req EXCEPT ![r] = Finish(req[r], "webhook_error", "receipt")]
          /\ UNCHANGED receipts
    /\ UNCHANGED <<equipment, bookings, orders, started, webhookSecret>>

\* routes.ts 836: storage.updateBooking(result.bookingId, {payment_failed})
WebhookUpdateFailed(r) ==
    /\ req[r].pc = "wh_updateFailed"
    /\ LET b == RowOf(req[r].key)
       IN  \/ /\ b # 0
              /\ bookings' = updateBookingStatus(b, "payment_failed")
              /\ req' = [req EXCEPT ![r].pc = "wh_release", ![r].bookingId = b,
                                    ![r].equipmentId = bookings[b].equipmentId,
                                    ![r].wrote = TRUE]
              /\ UNCHANGED dbFaults
           \/ /\ b = 0
              /\ req' = [req EXCEPT ![r] = Finish(req[r], "webhook_error", "update")]
              /\ UNCHANGED <<bookings, dbFaults>>
           \/ /\ b # 0
              /\ MayFault
              /\ dbFaults' = dbFaults + 1
              /\ req' = [req EXCEPT ![r] = Finish(req[r], "webhook_error", "update")]
              /\ UNCHANGED bookings
    /\ UNCHANGED <<equipment, receipts, orders, started, webhookSecret>>

\* routes.ts 841: storage.updateEquipment(booking.equipmentId, true)
WebhookRelease(r) ==
    /\ req[r].pc = "wh_release"
    /\ \/ /\ equipment' = updateEquipment(req[r].equipmentId, TRUE)
          /\ req' = [req EXCEPT ![r] = Finish(req[r], "received", "")]
          /\ UNCHANGED dbFaults
       \/ /\ MayFault
          /\ dbFaults' = dbFaults + 1
          /\ req' = [req EXCEPT ![r] = Finish(req[r], "webhook_error", "release")]
          /\ UNCHANGED equipment
    /\ UNCHANGED <<bookings, receipts, orders, started, webhookSecret>>

\* -------------------------------------------------------------------- Next
Next ==
    \E r \in Slots :
        \/ CreateBooking(r)
        \/ CreateBookingCheckEquipment(r)
        \/ CreateBookingCheckBookings(r)
        \/ CreateBookingInsert(r)
        \/ CreateBookingLock(r)
        \/ createPaymentSession(r)
        \/ CreateBookingUpdate(r)
        \/ CreateBookingRevert(r)
        \/ CreateBookingMarkFailed(r)
        \/ VerifyPayment(r)
        \/ VerifyPaymentSignature(r)
        \/ VerifyPaymentUpdateBooking(r)
        \/ VerifyPaymentCreateReceipt(r)
        \/ GetBookingReceipt(r)
        \/ GetBookingReceiptLookup(r)
        \/ GetBookingReceiptCreate(r)
        \/ Webhook(r)
        \/ WebhookUpdatePaid(r)
        \/ WebhookLock(r)
        \/ generateReceiptFetch(r)
        \/ generateReceipt(r)
        \/ WebhookUpdateFailed(r)
        \/ WebhookRelease(r)

Spec == Init /\ [][Next]_vars

\* ------------------------------ POST /api/webhooks/razorpay, any sender
\* the deployment sets RAZORPAY_WEBHOOK_SECRET or leaves it unset
InitWebhook ==
    /\ InitDatabase
    /\ webhookSecret \in {WebhookSecret, NoSecret}

NextWebhook ==
    \E r \in Slots :
        \/ WebhookAnySender(r)
        \/ WebhookUpdatePaid(r)
        \/ WebhookLock(r)
        \/ generateReceiptFetch(r)
        \/ generateReceipt(r)
        \/ WebhookUpdateFailed(r)
        \/ WebhookRelease(r)

SpecWebhook == InitWebhook /\ [][NextWebhook]_vars

\* ------------------------------------- POST /api/bookings, one at a time
\* daily rates of the catalogue
RateInputs == { dailyRate, 2 * dailyRate + 1 }

InitBookingBodies ==
    /\ \E x \in RateInputs :
          equipment = [e \in Equipment |-> [availability |-> TRUE, dailyRate |-> x]]
    /\ bookings = <<>>
    /\ receipts = <<>>
    /\ orders = <<>>
    /\ req = [r \in Slots |-> IdleReq]
    /\ started = 0
    /\ dbFaults = 0
    /\ webhookSecret = WebhookSecret

NextBookingBodies ==
    \E r \in Slots :
        \/ CreateBookingAnyBody(r)
        \/ CreateBookingCheckEquipment(r)
        \/ CreateBookingCheckBookings(r)
        \/ CreateBookingInsert(r)
        \/ CreateBookingLock(r)
        \/ createPaymentSession(r)
        \/ CreateBookingUpdate(r)
        \/ CreateBookingRevert(r)
        \/ CreateBookingMarkFailed(r)

SpecBookingBodies == InitBookingBodies /\ [][NextBookingBodies]_vars

\* ------------------------- settlement of one of two bookings of a user
\* The database after two POST /api/bookings for equipment e: the first, for
\* days 0 to 1, got its order and was then marked payment_failed (equipment
\* released); the second, for day 2 alone, is awaiting payment with its own
\* order.  The two bookings are charged a different number of days.
InitSettlement ==
    /\ \E e \in Equipment :
          /\ equipment = [x \in Equipment |->
                            [availability |-> (x # e), dailyRate |-> dailyRate]]
          /\ bookings =
               << [ NewBooking(e, 0, TicksPerDay, dailyRate * totalDays(0, TicksPerDay))
                      EXCEPT !.status = "payment_failed", !.razorpayOrderId = 1,
                             !.lastStatusUpdate = 2 ],
                  [ NewBooking(e, 2 * TicksPerDay, 2 * TicksPerDay,
                               dailyRate * totalDays(2 * TicksPerDay, 2 * TicksPerDay))
                      EXCEPT !.status = "awaiting_payment", !.razorpayOrderId = 2,
                             !.lastStatusUpdate = 1 ] >>
    /\ orders = << [bookingId |-> 1,
                    amount |-> dailyRate * totalDays(0, TicksPerDay) * PaisePerRupee],
                   [bookingId |-> 2,
                    amount |-> dailyRate * totalDays(2 * TicksPerDay, 2 * TicksPerDay)
                                  * PaisePerRupee] >>
    /\ receipts = <<>>
    /\ req = [r \in Slots |-> IdleReq]
    /\ started = 0
    /\ dbFaults = 0
    /\ webhookSecret = WebhookSecret

NextSettlement ==
    \E r \in Slots :
        \/ VerifyPayment(r)
        \/ VerifyPaymentSignature(r)
        \/ VerifyPaymentUpdateBooking(r)
        \/ VerifyPaymentCreateReceipt(r)
        \/ GetBookingReceipt(r)
        \/ GetBookingReceiptLookup(r)
        \/ GetBookingReceiptCreate(r)
        \/ Webhook(r)
        \/ WebhookUpdatePaid(r)
        \/ WebhookLock(r)
        \/ generateReceiptFetch(r)
        \/ generateReceipt(r)
        \/ WebhookUpdateFailed(r)
        \/ WebhookRelease(r)

SpecSettlement == InitSettlement /\ [][NextSettlement]_vars

\* --------------------- GET /api/bookings/:id/receipt, any account asking
\* verify-payment settles the customer's booking while any account asks
\* for the booking's receipt
NextReceiptAccess ==
    \E r \in Slots :
        \/ VerifyPayment(r)
        \/ VerifyPaymentSignature(r)
        \/ VerifyPaymentUpdateBooking(r)
        \/ VerifyPaymentCreateReceipt(r)
        \/ GetBookingReceiptAnyUser(r)
        \/ GetBookingReceiptLookup(r)
        \/ GetBookingReceiptCreate(r)

SpecReceiptAccess == Init /\ [][NextReceiptAccess]_vars

\* ------------------------------------------------------------------ claims
Active == {"paid", "awaiting_payment"}

\* inclusive calendar-day ranges [a1, a2] and [b1, b2] overlap
Overlap(a, b) ==
    /\ DayOf(bookings[a].startDate) <= DayOf(bookings[b].endDate)
    /\ DayOf(bookings[b].startDate) <= DayOf(bookings[a].endDate)

\* request r, not yet answered, takes a step
Steps(r) == req[r].pc # "done" /\ req'[r] # req[r]

\* request r sends its response in this step
Ends(r) == req[r].pc # "done" /\ req'[r].pc = "done"

\* C1: no two distinct bookings of the same equipment that are both paid or
\* awaiting_payment have overlapping inclusive date ranges.
C1_NoOverlappingActiveBookings ==
    \A a, b \in BookingIds :
        ( /\ a # b
          /\ bookings[a].equipmentId = bookings[b].equipmentId
          /\ bookings[a].status \in Active
          /\ bookings[b].status \in Active ) => ~Overlap(a, b)

\* a create request between its availability check and its lock write
BetweenCheckAndLock(r) ==
    /\ req[r].kind = "create"
    /\ req[r].pc \in {"cb_checkBookings", "cb_insert", "cb_lock"}

\* C2: of two CreateBooking requests for the same equipment and the same
\* date range that run concurrently, the availability check of one never
\* falls between the check and the lock write of the other, and the two
\* never both end with their booking in awaiting_payment.
C2_CheckAndLockIndivisible ==
    \A r, q \in Slots :
        r # q =>
          /\ ~ ( /\ BetweenCheckAndLock(r) /\ BetweenCheckAndLock(q)
                 /\ req[r].equipmentId = req[q].equipmentId
                 /\ req[r].startDate = req[q].startDate
                 /\ req[r].endDate = req[q].endDate )
          /\ ~ ( /\ req[r].kind = "create" /\ req[r].result = "created"
                 /\ req[q].kind = "create" /\ req[q].result = "created"
                 /\ bookings[req[r].bookingId].equipmentId = bookings[req[q].bookingId].equipmentId
                 /\ bookings[req[r].bookingId].startDate = bookings[req[q].bookingId].startDate
                 /\ bookings[req[r].bookingId].endDate = bookings[req[q].bookingId].endDate
                 /\ bookings[req[r].bookingId].status = "awaiting_payment"
                 /\ bookings[req[q].bookingId].status = "awaiting_payment" )

LockHeld(e) ==
    \E b \in BookingIds :
        /\ bookings[b].equipmentId = e
        /\ \/ bookings[b].status \in Active
           \/ \E q \in Slots : /\ req[q].kind = "create"
                               /\ req[q].bookingId = b
                               /\ req[q].pc \in {"cb_createPaymentSession", "cb_update"}

\* C4: a CreateBooking request that ends in an error, the failure of a
\* storage write after the lock included, does not leave its equipment with
\* availability = false (unless another booking holds the lock).
C4_NoLeakedLock ==
    [][ \A r \in Slots :
          ( /\ req[r].kind = "create"
            /\ Ends(r)
            /\ req'[r].result \in {"error", "payment_error"} ) =>
              \/ equipment'[req[r].equipmentId].availability = TRUE
              \/ LockHeld(req[r].equipmentId)'
      ]_vars

\* C5: VerifyAndSettle on a booking that already has its receipt returns
\* that receipt and creates no second receipt row.
C5_VerifyIdempotent ==
    [][ \A r \in Slots :
          ( /\ req[r].kind = "verify"
            /\ Ends(r)
            /\ req'[r].result = "settled"
            /\ ReceiptsOf(req[r].bookingId) # {} ) =>
              /\ receipts' = receipts
              /\ req'[r].receiptId \in ReceiptsOf(req[r].bookingId)
      ]_vars

\* C6: there is at most one receipt row per booking id.
C6_OneReceiptPerBooking ==
    \A b \in BookingIds : Cardinality(ReceiptsOf(b)) <= 1

\* C7: a 'payment failed' webhook event processed for a booking that
\* synchronous verification has marked paid (its receipt is there) is
\* ignored: the status stays paid and the handler does not go on to release
\* the equipment.
C7_FailedAfterPaidIgnored ==
    [][ \A r \in Slots :
          ( /\ req[r].kind = "webhook"
            /\ req[r].pc = "wh_updateFailed"
            /\ Steps(r)
            /\ RowOf(req[r].key) # 0
            /\ bookings[RowOf(req[r].key)].status = "paid"
            /\ \E i \in ReceiptsOf(RowOf(req[r].key)) : receipts[i].status = "paid" ) =>
              /\ bookings'[RowOf(req[r].key)].status = "paid"
              /\ req'[r].pc # "wh_release"
      ]_vars

\* C8: a 'payment captured' webhook event processed for a booking that is
\* already paid changes no field of the booking and creates no additional
\* receipt row.
C8_CapturedAfterPaidNoOp ==
    [][ \A r \in Slots :
          ( /\ req[r].kind = "webhook"
            /\ Steps(r) ) =>
              /\ ( /\ req[r].pc = "wh_updatePaid"
                   /\ RowOf(req[r].key) # 0
                   /\ bookings[RowOf(req[r].key)].status = "paid" ) =>
                       /\ bookings' = bookings
                       /\ req'[r].pc # "wh_lock"
              /\ ( /\ req[r].pc = "wh_createReceipt"
                   /\ ReceiptsOf(req[r].bookingId) # {} ) =>
                       receipts' = receipts
      ]_vars

\* C9: a VerifyAndSettle request whose signature is not the HMAC of
\* orderId|paymentId under the server's key ends in an error and changes
\* nothing: bookings, equipment and receipts stay as they are.
C9_InvalidSignatureNoChange ==
    [][ \A r \in Slots :
          ( /\ req[r].kind = "verify"
            /\ Steps(r)
            /\ req[r].signature # Hmac(KeySecret, <<req[r].orderId, req[r].paymentId>>) ) =>
              /\ UNCHANGED <<bookings, equipment, receipts>>
              /\ req'[r].pc = "done"
              /\ req'[r].result = "invalid_signature"
      ]_vars

C9_Witness ==
    \E r \in Slots :
        /\ req[r].kind = "verify" /\ req[r].pc = "done"
        /\ req[r].result = "invalid_signature"
        /\ req[r].signature = Hmac(ForgedKey, <<req[r].orderId, req[r].paymentId>>)
        /\ bookings[req[r].bookingId].status = "awaiting_payment"
        /\ bookings[req[r].bookingId].razorpayPaymentId = 0
        /\ receipts = <<>>

\* C10: a CreateBooking request that finds its equipment with
\* availability = false fails with the conflict error at once, inserts no
\* booking row and writes nothing.
C10_UnavailableRejected ==
    \A r \in Slots :
        ( /\ req[r].kind = "create"
          /\ req[r].seen = "unavailable" ) =>
            /\ req[r].pc = "done"
            /\ req[r].result = "conflict"
            /\ req[r].bookingId = 0
            /\ ~req[r].wrote

C10_Witness ==
    \E r \in Slots :
        /\ req[r].kind = "create" /\ req[r].seen = "unavailable"
        /\ req[r].pc = "done" /\ req[r].result = "conflict"
        /\ equipment[req[r].equipmentId].availability = FALSE

\* ------------------------------------------ checkEquipmentAvailability
\* instants of days 0 to 2: midnights and an instant after midnight
DateTicks == { 0, 1, TicksPerDay, TicksPerDay + 1, 2 * TicksPerDay }

\* A stored booking as checkEquipmentAvailability reads it: any equipment,
\* any range with start <= end, any status; a row that got as far as
\* awaiting_payment holds its order, a paid row its payment
StoredBookings ==
    { [ NewBooking(e, d1, d2, dailyRate * totalDays(d1, d2))
          EXCEPT !.status = st,
                 !.razorpayOrderId = IF st \in {"awaiting_payment", "paid"} THEN 1 ELSE 0,
                 !.razorpayPaymentId = IF st = "paid" THEN 1 ELSE 0,
                 !.lastStatusUpdate = IF st = "pending" THEN 0
                                      ELSE IF st = "paid" THEN 2 ELSE 1 ] :
        e \in Equipment, d1 \in DateTicks, d2 \in DateTicks,
        st \in {"pending", "awaiting_payment", "paid", "payment_failed"} }

InitAvailability ==
    /\ equipment \in [Equipment -> { [availability |-> a, dailyRate |-> dailyRate] :
                                        a \in BOOLEAN }]
    /\ \/ /\ bookings = <<>>
          /\ orders = <<>>
       \/ \E b \in StoredBookings :
            /\ b.startDate <= b.endDate
            /\ bookings = << b >>
            /\ orders = IF b.razorpayOrderId = 1
                        THEN << [bookingId |-> 1, amount |-> b.totalPrice * PaisePerRupee] >>
                        ELSE <<>>
    /\ receipts = <<>>
    /\ req = [r \in Slots |-> IdleReq]
    /\ started = 0
    /\ dbFaults = 0
    /\ webhookSecret = WebhookSecret

\* one call of storage.checkEquipmentAvailability, for any equipment id
\* (NumEquipment + 1 has no row) and any two dates, valid or not; the call
\* keeps the rows its range query selected
CheckAvailability(r) ==
    /\ CanStart(r)
    /\ \A q \in Slots : Free(q)
    /\ started' = started + 1
    /\ \E e \in 1..(NumEquipment + 1),
          d1 \in DateTicks \cup {InvalidDate}, d2 \in DateTicks \cup {InvalidDate} :
          req' = [req EXCEPT ![r] =
                    [IdleReq EXCEPT !.kind = "check", !.pc = "done",
                                    !.equipmentId = e,
                                    !.startDate = d1, !.endDate = d2,
                                    !.rows = IF e \in Equipment /\ equipment[e].availability
                                             THEN getBookingsByDateRange(e, d1, d2)
                                             ELSE {},
                                    !.result = IF checkEquipmentAvailability(e, d1, d2)
                                               THEN "true" ELSE "false"]]
    /\ UNCHANGED <<equipment, bookings, receipts, orders, dbFaults, webhookSecret>>

NextAvailability == \E r \in Slots : CheckAvailability(r)

SpecAvailability == InitAvailability /\ [][NextAvailability]_vars

\* the least n >= 1 with (n - 1) days >= endDate - startDate
DaysCharged(startDate, endDate) ==
    CHOOSE n \in 1..(2 * TicksPerDay + 2) :
        /\ (n - 1) * TicksPerDay >= endDate - startDate
        /\ n > 1 => (n - 2) * TicksPerDay < endDate - startDate

\* C11: every booking row created by CreateBooking has totalPrice =
\* dailyRate * totalDays, where dailyRate is the equipment's and totalDays
\* = max(1, ceil((end - start) / 1 day) + 1).
C11_TotalPrice ==
    \A b \in BookingIds :
        bookings[b].totalPrice =
            equipment[bookings[b].equipmentId].dailyRate
                * DaysCharged(bookings[b].startDate, bookings[b].endDate)

\* dailyRate 500 from the first to the third day: 3 days, 1500
C11_Witness ==
    \E b \in BookingIds :
        /\ equipment[bookings[b].equipmentId].dailyRate = 500
        /\ bookings[b].startDate = 0
        /\ bookings[b].endDate = 2 * TicksPerDay
        /\ bookings[b].totalPrice = 1500

\* the inclusive ranges [a1, a2] and [b1, b2] overlap
Overlaps(a1, a2, b1, b2) == a1 <= b2 /\ b1 <= a2

\* the stored bookings of equipment e that overlap the day-normalized range
\* of the query [startDate, endDate]
OverlappingBookings(e, startDate, endDate) ==
    { b \in BookingIds :
        /\ bookings[b].equipmentId = e
        /\ Overlaps(DayOf(startDate) * TicksPerDay,
                    (DayOf(endDate) + 1) * TicksPerDay - 1,
                    bookings[b].startDate, bookings[b].endDate) }

\* a call of checkEquipmentAvailability for an existing equipment and two
\* valid dates with start <= end
ValidCheck(r) ==
    /\ req[r].kind = "check" /\ req[r].pc = "done"
    /\ req[r].equipmentId \in Equipment
    /\ ~isNaN(req[r].startDate) /\ ~isNaN(req[r].endDate)
    /\ req[r].startDate <= req[r].endDate

C13_FalseOnBadInput ==
    \A r \in Slots :
        ( /\ req[r].kind = "check" /\ req[r].pc = "done"
          /\ \/ req[r].equipmentId \notin Equipment
             \/ isNaN(req[r].startDate)
             \/ isNaN(req[r].endDate) ) => req[r].result = "false"

\* the webhook request in slot r does not carry the HMAC of its body under
\* the gateway's webhook secret
BadWebhookSignature(rq) ==
    /\ rq.kind = "webhook"
    /\ rq.signature # IdleReq.signature
    /\ \/ rq.signature = MissingSignature
       \/ rq.signature[1] # WebhookSecret

\* C14: a webhook request whose signature header is missing or is not the
\* HMAC of the raw body is rejected and changes no booking, equipment or
\* receipt: no step of such a request writes.
C14_UnsignedWebhookRejected ==
    [][ \A r \in Slots :
          ( /\ req'[r] # req[r]
            /\ BadWebhookSignature(req'[r]) ) =>
              UNCHANGED <<bookings, equipment, receipts>>
      ]_vars

\* C15: a webhook request with a valid signature is answered
\* {received: true}, also when its processing fails.
C15_SignedWebhookAcknowledged ==
    \A r \in Slots :
        ( /\ req[r].kind = "webhook"
          /\ req[r].pc = "done"
          /\ webhookSecret = WebhookSecret
          /\ req[r].signature = Hmac(WebhookSecret, req[r].signature[2]) ) =>
            req[r].result = "received"

\* ---------------------------------------------------------------- C16
\* the day on which the requests arrive: day 1, so that day 0 is past
Today == 1

\* the dates spec section 4.1 refuses: an end before the start, or a start
\* or an end before the current day
BadDateRange(startDate, endDate) ==
    \/ endDate < startDate
    \/ startDate < Today * TicksPerDay
    \/ endDate < Today * TicksPerDay

\* C16: a POST /api/bookings whose endDate is before its startDate, or whose
\* startDate or endDate is before the current day, is refused as invalid
\* and no step of it inserts a booking row or writes an equipment row.
C16_BadDatesRejected ==
    [][ \A r \in Slots :
          ( /\ req[r].kind = "create"
            /\ req[r].pc \notin {"idle", "done"}
            /\ BadDateRange(req[r].startDate, req[r].endDate)
            /\ req'[r] # req[r] ) =>
              UNCHANGED <<bookings, equipment>>
      ]_vars

\* ---------------------------------------------------------------- C17
\* the status changes of spec section 3: paid and payment_failed are final
AllowedTransitions ==
    { <<"pending", "awaiting_payment">>, <<"pending", "payment_failed">>,
      <<"awaiting_payment", "paid">>, <<"awaiting_payment", "payment_failed">> }

\* C17: every change of the status of a booking row is one of the four
\* allowed transitions; a row that is paid or payment_failed keeps its
\* status under every verify-payment call and webhook event.
C17_OnlyAllowedTransitions ==
    [][ \A b \in BookingIds :
          bookings'[b].status # bookings[b].status =>
              <<bookings[b].status, bookings'[b].status>> \in AllowedTransitions
      ]_vars

\* ---------------------------------------------------------------- C18
\* the event of the request in slot r is about gateway order k
EventOfOrder(r, k) ==
    /\ req[r].kind = "webhook"
    /\ req[r].pc \in {"wh_updatePaid", "wh_updateFailed"}
    /\ req[r].key = <<"order", k>>

\* C18: a 'payment captured' or 'payment failed' event about the gateway
\* order created for booking B updates booking B (unless the storage write
\* itself fails) and no other booking: the update is keyed by the booking
\* id of the order's notes, not by the order id.
C18_WebhookUpdatesItsBooking ==
    [][ \A r \in Slots : \A k \in IssuedOrders :
          ( EventOfOrder(r, k) /\ Steps(r) ) =>
              /\ \A b \in BookingIds \ {orders[k].bookingId} :
                     bookings'[b] = bookings[b]
              /\ \/ dbFaults' # dbFaults
                 \/ bookings'[orders[k].bookingId].status =
                        IF req[r].pc = "wh_updatePaid" THEN "paid" ELSE "payment_failed"
      ]_vars

StorageStep(r) ==
    \/ CreateBookingCheckEquipment(r)
    \/ CreateBookingCheckBookings(r)
    \/ CreateBookingInsert(r)
    \/ CreateBookingLock(r)
    \/ CreateBookingUpdate(r)
    \/ CreateBookingRevert(r)
    \/ CreateBookingMarkFailed(r)
    \/ VerifyPaymentSignature(r)
    \/ VerifyPaymentUpdateBooking(r)
    \/ VerifyPaymentCreateReceipt(r)
    \/ GetBookingReceiptLookup(r)
    \/ GetBookingReceiptCreate(r)
    \/ WebhookUpdatePaid(r)
    \/ WebhookLock(r)
    \/ generateReceipt(r)
    \/ WebhookUpdateFailed(r)
    \/ WebhookRelease(r)

\* the server under a database that always answers and a gateway that may
\* stay silent
FairSpec == Spec /\ \A r \in Slots : WF_vars(StorageStep(r))

\* the CreateBooking request in slot r waits for razorpay.orders.create
AwaitsGateway(r) ==
    /\ req[r].kind = "create"
    /\ req[r].pc = "cb_createPaymentSession"

\* C20: a CreateBooking request does not wait for the gateway's answer to
\* its payment-session creation for ever: it leaves the wait (through the
\* revert path when the gateway stays silent) and ends.
C20_GatewayWaitEnds ==
    \A r \in Slots : AwaitsGateway(r) ~> (req[r].pc = "done")

\* ---------------------------------------------------------------- C21
\* C21: when a POST /api/bookings that inserted a booking row ends, the row
\* is not pending: it is awaiting_payment with the equipment's availability
\* false, or payment_failed with the equipment's availability true.
C21_NoPendingAfterCreate ==
    [][ \A r \in Slots :
          ( /\ req[r].kind = "create"
            /\ req[r].bookingId # 0
            /\ Ends(r) ) =>
              \/ /\ bookings'[req[r].bookingId].status = "awaiting_payment"
                 /\ equipment'[req[r].equipmentId].availability = FALSE
              \/ /\ bookings'[req[r].bookingId].status = "payment_failed"
                 /\ equipment'[req[r].equipmentId].availability = TRUE
      ]_vars

\* ---------------------------------------------------------------- C22
\* the event types spec section 4.4 recognizes
RecognizedEvents == { "payment.captured", "payment.failed" }

\* the webhook request rq carries the HMAC of its body under the configured
\* secret and its event is of a type that is not recognized
SignedUnrecognized(rq) ==
    /\ rq.kind = "webhook"
    /\ webhookSecret = WebhookSecret
    /\ rq.signature = Hmac(WebhookSecret, rq.signature[2])
    /\ rq.event \notin RecognizedEvents

\* C22: a webhook event of an unrecognized type with a valid signature is
\* answered {received: true}, and no step of its request changes a
\* booking, an equipment or a receipt.
C22_UnrecognizedEventIgnored ==
    [][ \A r \in Slots :
          ( /\ req'[r] # req[r]
            /\ SignedUnrecognized(req'[r]) ) =>
              /\ UNCHANGED <<bookings, equipment, receipts>>
              /\ req'[r].pc = "done" => req'[r].result = "received"
      ]_vars

\* ---------------------------------------------------------------- C23
\* C23: every receipt row has amount 100 x totalPrice of the booking it
\* references, whichever of the three paths created it.
C23_ReceiptAmount ==
    \A i \in 1..Len(receipts) :
        receipts[i].amount = PaisePerRupee * bookings[receipts[i].bookingId].totalPrice

\* ---------------------------------------------------------------- C24
\* days(end) - days(start) + 1: the calendar days from the day of startDate
\* to the day of endDate, both included
CalendarDays(startDate, endDate) == DayOf(endDate) - DayOf(startDate) + 1

\* C24: for startDate <= endDate at any time of day, the totalDays that
\* POST /api/bookings charges is the number of calendar days from the day
\* of startDate to the day of endDate inclusive.
C24_TotalDaysAreCalendarDays ==
    \A r \in Slots :
        ( /\ req[r].kind = "create"
          /\ req[r].pc \notin {"idle", "done"}
          /\ req[r].startDate <= req[r].endDate ) =>
            req[r].totalAmount =
                equipment[req[r].equipmentId].dailyRate
                    * CalendarDays(req[r].startDate, req[r].endDate)

\* ---------------------------------------------------------------- C25
\* the request in slot r has set its booking to paid
SetPaid(r) ==
    /\ req[r].wrote
    /\ \/ req[r].kind = "verify"
       \/ req[r].kind = "webhook" /\ req[r].seen = "captured"

\* C25: when a request that has set a booking to paid (verify-payment or a
\* 'payment captured' webhook event) ends, a receipt of that booking exists.
C25_PaidHasReceipt ==
    [][ \A r \in Slots :
          ( SetPaid(r) /\ Ends(r) ) =>
              \E i \in 1..Len(receipts') : receipts'[i].bookingId = req[r].bookingId
      ]_vars

\* ---------------------------------------------------------------- C26
\* C26: at every insertion of a receipt row the booking it references has
\* the stored status paid, whatever 'payment failed' webhook events are
\* processed in between.
C26_ReceiptOnlyWhilePaid ==
    [][ Len(receipts') > Len(receipts) =>
            bookings[receipts'[Len(receipts')].bookingId].status = "paid"
      ]_vars

\* ---------------------------------------------------------------- C27
\* C27: verify-payment marks booking B paid only when the order id of the
\* request is the razorpayOrderId stored on B.
C27_SettlesOwnOrderOnly ==
    [][ \A r \in Slots :
          ( /\ req[r].kind = "verify"
            /\ req[r].pc = "vp_updateBooking"
            /\ bookings' # bookings ) =>
              req[r].orderId = bookings[req[r].bookingId].razorpayOrderId
      ]_vars

\* ---------------------------------------------------------------- C28
\* C28: whenever no request is in flight, the equipment of every booking
\* that is awaiting_payment or paid has availability = false.
C28_ActiveBookingKeepsLock ==
    ( \A r \in Slots : Free(r) ) =>
        \A b \in BookingIds :
            bookings[b].status \in Active =>
                equipment[bookings[b].equipmentId].availability = FALSE

\* ---------------------------------------------------------------- C29
\* C29: GET /api/bookings/:id/receipt answers with a receipt only when the
\* asking user is the receipt's userId, whether the receipt existed or the
\* endpoint has just created it.
C29_ReceiptOnlyToItsUser ==
    [][ \A r \in Slots :
          ( /\ req[r].kind = "receipt"
            /\ Ends(r)
            /\ req'[r].result = "receipt" ) =>
              receipts'[req'[r].receiptId].userId = req[r].user
      ]_vars

\* ---------------------------------------------------------------- C30
\* ids that booking rows can get
MaxBookings == MaxRequests + 1

\* booking b is awaiting payment
AwaitingPayment(b) ==
    /\ b \in BookingIds
    /\ bookings[b].status = "awaiting_payment"

\* booking b has been settled as paid, or has failed with its equipment
\* released
Settled(b) ==
    /\ b \in BookingIds
    /\ \/ bookings[b].status = "paid"
       \/ /\ bookings[b].status = "payment_failed"
          /\ equipment[bookings[b].equipmentId].availability = TRUE

\* C30: every booking that is awaiting payment eventually becomes paid or
\* payment_failed with its equipment available again, also when no
\* verification call and no webhook event ever arrives for it.
C30_AwaitingPaymentEnds ==
    \A b \in 1..MaxBookings : AwaitingPayment(b) ~> Settled(b)

====
